---- MODULE Spec2Model ----
(***************************************************************************)
(* Model of the course recommender: the /search and /recommend handlers of *)
(* api/app.py and the embedding ingestion job of                           *)
(* scripts/ingest_embeddings.py.                                           *)
(*                                                                         *)
(* Strings are sequences of one-character strings, so that strip, slicing  *)
(* and parsing are computed rather than assumed.  JSON values are records  *)
(* [t, s, n]: t the JSON type, s the characters of a string, n a number in *)
(* tenths (25 is 2.5) or the length of a list.                             *)
(***************************************************************************)
EXTENDS Integers, Sequences, FiniteSets, TLC

VARIABLES
    \* one HTTP request to the API
    endpoint,      \* "search" | "recommend"
    body,          \* the request body
    env,           \* [url, key]: whether SUPABASE_URL / the API key are set and non-empty
    pc,            \* position of the handler
    intent,        \* recommend: the intent string
    top_k,         \* recommend: clamped top_k
    k,             \* search: the parsed k
    candidates,    \* recommend: the candidate list
    source,        \* recommend: where the candidates came from
    allowed_ids,   \* recommend: ids of the candidates shown to the model
    modelOut,      \* recommend: what the completion call produced
    recs,          \* recommend: raw items taken from the model output
    storeOut,      \* what the backing store answered
    storeCalls,    \* number of backing-store calls made
    modelCalls,    \* number of completion calls made
    response,      \* the HTTP response
    \* the ingestion job and the two tables
    prog,          \* "job" (main) | "embed" (create_embeddings called alone) | "none"
    ipc,           \* position of the job
    courses,       \* table public.courses, in storage order
    embeddings,    \* table public.course_embeddings, in storage order
    rows,          \* main: the fetched rows
    texts,         \* the texts to embed
    batchStart,    \* create_embeddings: i of the batch loop
    received,      \* create_embeddings: the embeddings list
    vectors,       \* what create_embeddings returned
    raised,        \* whether create_embeddings ended by an exception
    written,       \* main: what upsert_course_embeddings returned
    ce_count,      \* main: counted rows of course_embeddings
    co_count,      \* main: counted rows of courses
    exit,          \* exit code of the job, -1 while it runs
    writes,        \* upserts into course_embeddings made by this run
    providerCalls, \* embedding calls made by this run
    providerOk,    \* every embedding call of this run answered per contract
    storeOk,       \* every store call of this run succeeded
    prior,         \* rows of course_embeddings when this run started
    runs,          \* runs of the job started so far
    loads          \* runs of ingest_courses so far

apiVars == <<endpoint, body, env, pc, intent, top_k, k, candidates, source,
             allowed_ids, modelOut, recs, storeOut, storeCalls, modelCalls,
             response>>

ingVars == <<prog, ipc, courses, embeddings, rows, texts, batchStart, received,
             vectors, raised, written, ce_count, co_count, exit, writes,
             providerCalls, providerOk, storeOk, prior, runs, loads>>

vars == <<apiVars, ingVars>>

-----------------------------------------------------------------------------
(* Strings *)

SPACE == " "

RECURSIVE LStrip(_)
LStrip(s) == IF s = <<>> THEN s
             ELSE IF Head(s) = SPACE THEN LStrip(Tail(s)) ELSE s

RECURSIVE RStrip(_)
RStrip(s) == IF s = <<>> THEN s
             ELSE IF s[Len(s)] = SPACE THEN RStrip(SubSeq(s, 1, Len(s) - 1)) ELSE s

\* str.strip()
Strip(s) == RStrip(LStrip(s))

\* s[:n]
Take(s, n) == SubSeq(s, 1, IF Len(s) < n THEN Len(s) ELSE n)

\* a string of n copies of c
Rep(c, n) == [i \in 1..n |-> c]

Digits == {"0", "1", "2", "3", "4", "5", "6", "7", "8", "9"}

DigitVal(c) == CASE c = "0" -> 0 [] c = "1" -> 1 [] c = "2" -> 2 [] c = "3" -> 3
                 [] c = "4" -> 4 [] c = "5" -> 5 [] c = "6" -> 6 [] c = "7" -> 7
                 [] c = "8" -> 8 [] OTHER -> 9

AllDigits(s) == s # <<>> /\ \A i \in 1..Len(s) : s[i] \in Digits

RECURSIVE NatOf(_)
NatOf(s) == IF s = <<>> THEN 0
            ELSE NatOf(SubSeq(s, 1, Len(s) - 1)) * 10 + DigitVal(s[Len(s)])

-----------------------------------------------------------------------------
(* JSON values and the Python operations the handlers apply to them *)

Absent    == [t |-> "absent", s |-> <<>>, n |-> 0]
Null      == [t |-> "null", s |-> <<>>, n |-> 0]
NaNV      == [t |-> "nan", s |-> <<>>, n |-> 0]
StrV(s)   == [t |-> "str", s |-> s, n |-> 0]
NumV(n)   == [t |-> "num", s |-> <<>>, n |-> n]
ListV(n)  == [t |-> "list", s |-> <<>>, n |-> n]

\* bool(v)
Truthy(v) == CASE v.t = "str"  -> v.s # <<>>
               [] v.t = "num"  -> v.n # 0
               [] v.t = "list" -> v.n # 0
               [] v.t = "nan"  -> TRUE
               [] OTHER        -> FALSE

\* d.get(key, default)
GetOr(v, default) == IF v.t = "absent" THEN default ELSE v

\* a or b
PyOr(a, b) == IF Truthy(a) THEN a ELSE b

\* (v or "").strip(): AttributeError when v is truthy and not a string
StripOf(v) == LET x == PyOr(v, StrV(<<>>))
              IN  IF x.t = "str" THEN [ok |-> TRUE, s |-> Strip(x.s)]
                  ELSE [ok |-> FALSE, s |-> <<>>]

\* int(str): surrounding whitespace allowed, an optional sign, digits
ParseInt(s) == LET u == Strip(s)
                   neg == u # <<>> /\ u[1] = "-"
                   d == IF neg THEN Tail(u) ELSE u
               IN  IF AllDigits(d)
                   THEN [ok |-> TRUE, n |-> IF neg THEN 0 - NatOf(d) ELSE NatOf(d)]
                   ELSE [ok |-> FALSE, n |-> 0]

\* int(v): truncation toward zero for a number, parsing for a string,
\* TypeError / ValueError otherwise
PyInt(v) == CASE v.t = "num" -> [ok |-> TRUE,
                                 n |-> IF v.n >= 0 THEN v.n \div 10
                                       ELSE 0 - ((0 - v.n) \div 10)]
              [] v.t = "str" -> ParseInt(v.s)
              [] OTHER       -> [ok |-> FALSE, n |-> 0]

\* float(str) for the forms "d+" and "d+.d" with an optional sign; tenths
ParseDec(s) == LET u == Strip(s)
                   neg == u # <<>> /\ u[1] = "-"
                   d == IF neg THEN Tail(u) ELSE u
                   dotted == Len(d) >= 3 /\ d[Len(d) - 1] = "."
                   whole == IF dotted THEN SubSeq(d, 1, Len(d) - 2) ELSE d
                   frac == IF dotted THEN <<d[Len(d)]>> ELSE <<"0">>
                   mag == NatOf(whole) * 10 + NatOf(frac)
               IN  IF AllDigits(whole) /\ AllDigits(frac)
                   THEN [ok |-> TRUE, nan |-> FALSE, n |-> IF neg THEN 0 - mag ELSE mag]
                   ELSE [ok |-> FALSE, nan |-> FALSE, n |-> 0]

\* float(v); a float is [nan, n] with n in tenths
PyFloat(v) == CASE v.t = "num" -> [ok |-> TRUE, nan |-> FALSE, n |-> v.n]
                [] v.t = "nan" -> [ok |-> TRUE, nan |-> TRUE, n |-> 0]
                [] v.t = "str" -> ParseDec(v.s)
                [] OTHER       -> [ok |-> FALSE, nan |-> FALSE, n |-> 0]

Flt(n) == [nan |-> FALSE, n |-> n]

\* a < b on floats: every comparison with NaN is false
FltLess(a, b) == ~a.nan /\ ~b.nan /\ a.n < b.n

\* min(a, b) and max(a, b) as Python computes them: the first argument is
\* kept unless the second is strictly smaller (larger)
PyMin(a, b) == IF FltLess(b, a) THEN b ELSE a
PyMax(a, b) == IF FltLess(a, b) THEN b ELSE a

-----------------------------------------------------------------------------
(* Program constants *)

TOP_K_DEFAULT == 5
TOP_K_MIN == 1
TOP_K_MAX == 25
CANDIDATE_CAP == 10
RATIONALE_MAX == 400
\* confidence 0.6, 0.0 and 1.0, in tenths
CONF_DEFAULT == 6
CONF_MIN == 0
CONF_MAX == 10
K_DEFAULT == 10
K_MIN == 1
K_MAX == 25

-----------------------------------------------------------------------------
(* Responses *)

\* took_ms tells whether the body carries the field
NoResponse ==
    [status |-> 0, error |-> "none", recommendations |-> <<>>, results |-> <<>>,
     took_ms |-> FALSE]

\* ok({"recommendations": r}, 200, took_ms)
OkRecommendations(r) ==
    [status |-> 200, error |-> "none", recommendations |-> r, results |-> <<>>,
     took_ms |-> TRUE]

\* ok({"results": r}, 200, took_ms)
OkResults(r) ==
    [status |-> 200, error |-> "none", recommendations |-> <<>>, results |-> r,
     took_ms |-> TRUE]

\* err(message, status, took_ms); the message is kept as a tag
Err(tag, status) ==
    [status |-> status, error |-> tag, recommendations |-> <<>>, results |-> <<>>,
     took_ms |-> TRUE]

\* an exception that leaves the handler reaches the global error handler:
\* err("Internal server error", status=500), no took_ms
handle_unexpected == [Err("internal", 500) EXCEPT !.took_ms = FALSE]

-----------------------------------------------------------------------------
(* Profession profiles *)

ProductManager ==
    <<"p","r","o","d","u","c","t"," ","m","a","n","a","g","e","r">>
ProductManagement ==
    <<"p","r","o","d","u","c","t"," ","m","a","n","a","g","e","m","e","n","t">>
Pm == <<"p","m">>

\* str.lower() on the letters the model's inputs use
LowerChar(c) == CASE c = "P" -> "p" [] c = "M" -> "m" [] OTHER -> c
Lower(s) == [i \in 1..Len(s) |-> LowerChar(s[i])]

\* the canonical profession name, or <<>> for None
normalize_profession_name(raw) ==
    IF raw = <<>> THEN <<>>
    ELSE LET s == Lower(Strip(raw))
         IN  IF s = ProductManager \/ s \in {Pm, ProductManagement}
             THEN ProductManager ELSE <<>>

build_intent_from_profession(profession, extra_goal) ==
    LET canonical == normalize_profession_name(profession)
        base == IF canonical = <<>> THEN Strip(profession)
                ELSE IF canonical = ProductManager THEN ProductManagement
                ELSE canonical
    IN  IF extra_goal # <<>> THEN base \o <<SPACE>> \o Strip(extra_goal) ELSE base

-----------------------------------------------------------------------------
(* /recommend: parsing the body and normalizing the caller's candidates *)

\* top_k = int(body.get("top_k", 5)), 5 on any exception
ParseTopK(v) ==
    IF v.t = "absent" THEN TOP_K_DEFAULT
    ELSE LET r == PyInt(v) IN IF r.ok THEN r.n ELSE TOP_K_DEFAULT

Min(a, b) == IF a < b THEN a ELSE b
Max(a, b) == IF a > b THEN a ELSE b

\* the clamp without its ceiling
ClampTopKNoCeiling(n) == Max(TOP_K_MIN, n)

\* top_k = max(1, min(top_k, 25))
ClampTopK(n) == Max(TOP_K_MIN, Min(n, TOP_K_MAX))

CandIds(cands) == {cands[i].course_id : i \in 1..Len(cands)}

TitleUnknown ==
    <<" ","(","t","i","t","l","e"," ","u","n","k","n","o","w","n",")">>

\* the loop over raw_results: [ok, cands]; ok is FALSE when .strip() raised
RECURSIVE NormResults(_, _)
NormResults(items, cands) ==
    IF items = <<>> THEN [ok |-> TRUE, cands |-> cands]
    ELSE LET item == Head(items)
             cid == StripOf(item.course_id)
             title == StripOf(item.title)
         IN  IF item.t # "dict" THEN NormResults(Tail(items), cands)
             ELSE IF ~cid.ok \/ ~title.ok THEN [ok |-> FALSE, cands |-> cands]
             ELSE IF cid.s # <<>> /\ title.s # <<>> /\ StrV(cid.s) \notin CandIds(cands)
                  THEN NormResults(Tail(items),
                          Append(cands, [course_id |-> StrV(cid.s), title |-> StrV(title.s)]))
                  ELSE NormResults(Tail(items), cands)

\* the loop over raw_courses
RECURSIVE NormCourses(_, _)
NormCourses(items, cands) ==
    IF items = <<>> THEN cands
    ELSE LET v == Head(items)
             cid == Strip(v.s)
         IN  IF v.t = "str" /\ cid # <<>> /\ StrV(cid) \notin CandIds(cands)
             THEN NormCourses(Tail(items),
                     Append(cands, [course_id |-> StrV(cid),
                                    title |-> StrV(cid \o TitleUnknown)]))
             ELSE NormCourses(Tail(items), cands)

\* candidates from 'results' then 'courses'
NormalizeCandidates(b) ==
    LET r == IF b.results.t = "list" THEN NormResults(b.results.items, <<>>)
             ELSE [ok |-> TRUE, cands |-> <<>>]
    IN  IF ~r.ok THEN r
        ELSE [ok |-> TRUE,
              cands |-> IF b.courses.t = "list" THEN NormCourses(b.courses.items, r.cands)
                        ELSE r.cands]

\* the candidate list left uncapped
CapCandidatesNone(cands) == cands

\* candidates = candidates[:10]
CapCandidates(cands) == Take(cands, CANDIDATE_CAP)

\* allowed_ids = [c["course_id"] for c in candidates]
AllowedIds(cands) == [i \in 1..Len(cands) |-> cands[i].course_id]

-----------------------------------------------------------------------------
(* /recommend: the full-text retrieval fallback *)

ConfigMissing == ~env.url \/ ~env.key

\* retrieve_candidates_fts after the configuration check, given the store's
\* answer: [raised, cands].  A failed call or status returns []; a hit that
\* is no object makes h.get raise outside the helper's own try.
FtsCandidates(out) ==
    IF out.kind # "ok" THEN [raised |-> FALSE, cands |-> <<>>]
    ELSE IF \E i \in 1..Len(out.items) : out.items[i].t # "dict"
         THEN [raised |-> TRUE, cands |-> <<>>]
    ELSE LET withId == SelectSeq(out.items, LAMBDA h : Truthy(h.course_id))
         IN  [raised |-> FALSE,
              cands |-> [i \in 1..Len(withId) |->
                            [course_id |-> withId[i].course_id,
                             title |-> withId[i].course_id]]]

\* recommend's call of the helper: an exception gives candidates = []
retrieve_candidates_fts(out) ==
    LET r == FtsCandidates(out) IN IF r.raised THEN <<>> ELSE r.cands

-----------------------------------------------------------------------------
(* /recommend: the completion call and the validation of its items *)

\* parse_json_safely on the content of a completion: a fenced content is
\* unwrapped, an array inside prose is extracted, anything else that is no
\* JSON gives [].  recommend does not call it.
parse_json_safely(out) ==
    CASE out.form \in {"object", "array"} -> out
      [] out.form = "fenced" -> [out EXCEPT !.form = "object"]
      [] out.form = "prose" -> [out EXCEPT !.form = "array"]
      [] OTHER -> [form |-> "array", field |-> "absent", items |-> <<>>]

\* recs after the try block around the completion call: json.loads of the
\* content as it is, then obj.get("recommendations", [])
RecsOf(out) ==
    IF out.form = "object" /\ out.field = "list" THEN out.items ELSE <<>>

\* float(r.get("confidence", 0.6)), 0.6 on any exception
CoerceConfidence(v) ==
    IF v.t = "absent" THEN Flt(CONF_DEFAULT)
    ELSE LET f == PyFloat(v)
         IN  IF f.ok THEN [nan |-> f.nan, n |-> f.n] ELSE Flt(CONF_DEFAULT)

\* the confidence left as coerced
ClampConfidenceNone(conf) == conf

\* max(0.0, min(1.0, conf))
ClampConfidence(conf) == PyMax(Flt(CONF_MIN), PyMin(Flt(CONF_MAX), conf))

\* rationale[:400]
TruncRationale(s) == Take(s, RATIONALE_MAX)

\* the test without the whitelist
AcceptsAnyId(cid, rationale, allowed) == rationale # <<>>

\* cid in allowed and rationale
Accepts(cid, rationale, allowed) == StrV(cid) \in allowed /\ rationale # <<>>

\* the validation loop from item i on: [ok, cleaned]; ok is FALSE when
\* .strip() raised on a value that is no string.  src is the position of
\* the raw item a cleaned item was made from.
RECURSIVE ValidateFrom(_, _, _, _)
ValidateFrom(items, i, allowed, cleaned) ==
    IF i > Len(items) THEN [ok |-> TRUE, cleaned |-> cleaned]
    ELSE LET r == items[i]
             cid == StripOf(r.course_id)
             rationale == StripOf(r.rationale)
         IN  IF r.t # "dict" THEN ValidateFrom(items, i + 1, allowed, cleaned)
             ELSE IF ~cid.ok \/ ~rationale.ok THEN [ok |-> FALSE, cleaned |-> cleaned]
             ELSE IF Accepts(cid.s, rationale.s, allowed)
                  THEN ValidateFrom(items, i + 1, allowed,
                          Append(cleaned,
                             [course_id |-> cid.s,
                              rationale |-> TruncRationale(rationale.s),
                              confidence |-> ClampConfidence(CoerceConfidence(r.confidence)),
                              src |-> i]))
                  ELSE ValidateFrom(items, i + 1, allowed, cleaned)

\* allowed = set(allowed_ids) raises on an unhashable id
Hashable(ids) == \A i \in 1..Len(ids) : ids[i].t # "list"

Validate(items, ids) ==
    IF ~Hashable(ids) THEN [ok |-> FALSE, cleaned |-> <<>>]
    ELSE ValidateFrom(items, 1, {ids[i] : i \in 1..Len(ids)}, <<>>)

\* recommendations = cleaned[:top_k]
EnforceTopK(cleaned, n) == Take(cleaned, n)

-----------------------------------------------------------------------------
(* /recommend: the handler up to the candidate set *)

\* lines 292-347: [outcome, intent, top_k, cands]
ParseRecommend(b) ==
    LET profession == StripOf(b.profession)
        goal == StripOf(b.goal)
        q == StripOf(PyOr(b.q, b.query))
        it == IF q.s = <<>> /\ profession.s # <<>>
              THEN build_intent_from_profession(profession.s, goal.s)
              ELSE q.s
        c == NormalizeCandidates(b)
        outcome == IF b.form = "invalid" THEN "bad_json"
                   ELSE IF b.form = "array" THEN "raise"
                   ELSE IF ~profession.ok \/ ~goal.ok \/ ~q.ok THEN "raise"
                   ELSE IF it = <<>> THEN "missing"
                   ELSE IF ~c.ok THEN "raise"
                   ELSE "ok"
    IN  [outcome |-> outcome,
         intent |-> IF outcome \in {"ok", "missing"} THEN it ELSE <<>>,
         top_k |-> IF outcome \in {"bad_json"} \/ b.form = "array"
                      \/ ~profession.ok \/ ~goal.ok \/ ~q.ok
                   THEN 0 ELSE ClampTopK(ParseTopK(b.top_k)),
         cands |-> IF outcome = "ok" THEN c.cands ELSE <<>>]

-----------------------------------------------------------------------------
(* /search *)

\* k = int(body.get("k", 10)), -1 on any exception
ParseK(v) ==
    IF v.t = "absent" THEN K_DEFAULT
    ELSE LET r == PyInt(v) IN IF r.ok THEN r.n ELSE 0 - 1

\* lines 173-206: [outcome, k]
ParseSearch(b) ==
    LET q == StripOf(PyOr(b.q, b.query))
        kk == ParseK(b.k)
    IN  [outcome |-> IF b.form = "invalid" THEN "bad_json"
                     ELSE IF b.form = "array" THEN "raise"
                     ELSE IF ~q.ok THEN "raise"
                     ELSE IF q.s = <<>> THEN "missing"
                     ELSE IF ~(K_MIN <= kk /\ kk <= K_MAX) THEN "invalid_k"
                     ELSE IF ConfigMissing THEN "config"
                     ELSE "ok",
         k |-> kk]

\* score 1.0, in tenths
SCORE == 10

\* lines 225-255: the response for the store's answer
SearchResponse(out) ==
    IF out.kind # "ok" THEN Err("upstream", 500)
    ELSE IF \E i \in 1..Len(out.items) : out.items[i].t # "dict" THEN handle_unexpected
    ELSE OkResults([i \in 1..Len(out.items) |->
                       [course_id |-> out.items[i].course_id,
                        title |-> out.items[i].title,
                        score |-> SCORE,
                        description |-> out.items[i].description]])

-----------------------------------------------------------------------------
(* Bounds of the inputs *)

\* longest list of model items built from CoreItems
MaxRecs == 3
\* longest list of store rows / hits built from the core rows
MaxStoreItems == 2

SeqsUpTo(S, n) == UNION {[1..m -> S] : m \in 0..n}

-----------------------------------------------------------------------------
(* Inputs: request bodies, environment, store answers, model outputs *)

A == <<"a">>
B == <<"b">>
Z == <<"z">>
PaddedA == <<" ", "a", " ">>
PaddedB == <<" ", "b", " ">>
Title == <<"T">>
OkText == <<"o", "k">>
Letters == <<"a", "b", "c", "d", "e", "f", "g", "h", "i", "j", "k", "l">>
\* one more id than the candidate cap, and one more item than the top_k cap
OverCap == CANDIDATE_CAP + 1
OverTopK == TOP_K_MAX + 1
LastLetter == <<Letters[OverCap]>>

NoList == [t |-> "absent", items |-> <<>>]
ListOf(items) == [t |-> "list", items |-> items]
NotAList == [t |-> "other", items |-> <<>>]

Cand(cid, title) == [t |-> "dict", course_id |-> cid, title |-> title]
NonDictCand == [t |-> "other", course_id |-> Absent, title |-> Absent]

EmptyBody == [form |-> "object", q |-> Absent, query |-> Absent,
              profession |-> Absent, goal |-> Absent, top_k |-> Absent,
              k |-> Absent, courses |-> NoList, results |-> NoList]

\* candidate sources the caller can send: <<results, courses>>
CallerSources ==
    { <<ListOf(<<Cand(StrV(A), StrV(Title))>>), NoList>>,
      <<ListOf(<<Cand(StrV(PaddedA), StrV(Title)), Cand(StrV(B), StrV(Title)),
                 Cand(StrV(A), StrV(OkText))>>), NoList>>,
      <<NoList, ListOf(<<StrV(A), StrV(PaddedB), StrV(A)>>)>>,
      <<ListOf(<<Cand(StrV(B), StrV(Title))>>), ListOf(<<StrV(B), StrV(A)>>)>>,
      <<NoList, ListOf([i \in 1..OverCap |-> StrV(<<Letters[i]>>)])>>,
      <<ListOf(<<Cand(NumV(70), StrV(Title))>>), NoList>> }

\* sources with no usable candidate: retrieval is needed
EmptySources ==
    { <<NoList, NoList>>,
      <<ListOf(<<NonDictCand, Cand(StrV(<<>>), StrV(Title)), Cand(StrV(A), Absent)>>),
        ListOf(<<NumV(70), StrV(<<SPACE>>)>>)>>,
      <<NotAList, NotAList>> }

TopKVals == { Absent, Null, NaNV, ListV(1), NumV(0), NumV(0 - 10), NumV(10), NumV(20),
              NumV(25), NumV(250), NumV(260), NumV(9990),
              StrV(<<"3">>), StrV(<<"x">>) }

QVals == { Absent, Null, StrV(<<>>), StrV(<<SPACE>>), StrV(A), NumV(50) }
ProfessionVals == { Absent, StrV(Pm), StrV(<<" ", "P", "M">>), StrV(Z), NumV(10) }
GoalVals == { Absent, StrV(<<"g">>) }

BadBodies == { [EmptyBody EXCEPT !.form = "invalid"], [EmptyBody EXCEPT !.form = "array"] }

RecommendBodies ==
    { [EmptyBody EXCEPT !.q = StrV(A), !.top_k = tk, !.results = s[1], !.courses = s[2]] :
          tk \in TopKVals, s \in CallerSources }
    \cup { [EmptyBody EXCEPT !.q = StrV(A), !.top_k = tk, !.results = s[1], !.courses = s[2]] :
          tk \in {Absent, NumV(20)}, s \in EmptySources }
    \cup { [EmptyBody EXCEPT !.q = q, !.query = qq, !.profession = p, !.goal = g,
                             !.results = ListOf(<<Cand(StrV(A), StrV(Title))>>)] :
          q \in QVals, qq \in {Absent, StrV(B)}, p \in ProfessionVals, g \in GoalVals }
    \cup BadBodies

KVals == { Absent, Null, NaNV, NumV(0), NumV(0 - 10), NumV(10), NumV(20), NumV(25),
           NumV(250), NumV(259), NumV(260), StrV(<<"2">>), StrV(<<"x">>) }

SearchBodies ==
    { [EmptyBody EXCEPT !.q = q, !.query = qq, !.k = kv] :
          q \in QVals, qq \in {Absent, StrV(B)}, kv \in KVals }
    \cup BadBodies

Envs == { [url |-> TRUE, key |-> TRUE], [url |-> FALSE, key |-> TRUE],
          [url |-> TRUE, key |-> FALSE] }

StoreItem(cid, title) ==
    [t |-> "dict", course_id |-> cid, title |-> title, description |-> Absent]
NonDictStoreItem ==
    [t |-> "other", course_id |-> Absent, title |-> Absent, description |-> Absent]

NoStoreAnswer == [kind |-> "none", items |-> <<>>]
StoreFailures == { [kind |-> "raise", items |-> <<>>], [kind |-> "http_error", items |-> <<>>] }
StoreOk(items) == [kind |-> "ok", items |-> items]

CoreStoreItems == { StoreItem(StrV(A), StrV(Title)), StoreItem(StrV(B), Absent) }

\* what ft_search may answer
FtsOutcomes ==
    StoreFailures
    \cup { StoreOk(<<StoreItem(c, Absent)>>) :
              c \in {StrV(PaddedA), StrV(<<>>), Absent, Null, NumV(70), ListV(1)} }
    \cup { StoreOk(<<NonDictStoreItem>>) }
    \cup { StoreOk(s) : s \in SeqsUpTo(CoreStoreItems, MaxStoreItems) }
    \cup { StoreOk([i \in 1..OverCap |-> StoreItem(StrV(<<Letters[i]>>), Absent)]) }

\* what the title filter may answer
SearchOutcomes ==
    StoreFailures
    \cup { StoreOk(<<NonDictStoreItem>>) }
    \cup { StoreOk(s) : s \in SeqsUpTo(CoreStoreItems, MaxStoreItems) }

Item(cid, rationale, confidence) ==
    [t |-> "dict", course_id |-> cid, rationale |-> rationale, confidence |-> confidence]
NonDictItem == [t |-> "other", course_id |-> Absent, rationale |-> Absent, confidence |-> Absent]

CidVals == { StrV(A), StrV(PaddedA), StrV(Z), StrV(LastLetter), StrV(<<>>), Absent, Null,
             NumV(70) }
RationaleVals == { StrV(OkText), StrV(<<" ", "o", "k", " ">>), StrV(<<SPACE>>), StrV(<<>>),
                   Absent, Null, NumV(70), StrV(Rep("x", RATIONALE_MAX + 1)) }
ConfidenceVals == { Absent, Null, NaNV, ListV(1), NumV(0), NumV(9), NumV(15), NumV(0 - 3),
                    StrV(<<"0", ".", "9">>), StrV(<<"h", "i">>) }

SingleItems ==
    { Item(c, StrV(OkText), Absent) : c \in CidVals }
    \cup { Item(StrV(A), r, Absent) : r \in RationaleVals }
    \cup { Item(StrV(A), StrV(OkText), c) : c \in ConfidenceVals }
    \cup { Item(StrV(A), Absent, StrV(<<"h", "i">>)), NonDictItem }

CoreItems == { Item(StrV(A), StrV(OkText), NumV(9)),
               Item(StrV(B), StrV(OkText), StrV(<<"h", "i">>)),
               Item(StrV(Z), StrV(OkText), NumV(9)),
               Item(StrV(A), StrV(<<>>), Absent) }

ItemLists ==
    { <<i>> : i \in SingleItems }
    \cup SeqsUpTo(CoreItems, MaxRecs)
    \cup { [i \in 1..OverTopK |-> Item(StrV(A), StrV(OkText), NumV(9))] }
    \cup { <<Item(StrV(A), StrV(OkText), NumV(9)), Item(NumV(70), StrV(OkText), Absent)>> }

NoModelOut == [form |-> "none", field |-> "absent", items |-> <<>>]

\* what the completion call may produce: an exception, empty content, text
\* that is no JSON, a bare array, an object, an object inside a code fence
\* (```json ... ```), or an array inside prose
ModelOutcomes ==
    { [form |-> f, field |-> "absent", items |-> <<>>] : f \in {"raise", "empty", "invalid"} }
    \cup { [form |-> "array", field |-> "absent",
            items |-> <<Item(StrV(A), StrV(OkText), NumV(9))>>] }
    \cup { [form |-> "fenced", field |-> "list",
            items |-> <<Item(StrV(A), StrV(OkText), NumV(9))>>] }
    \cup { [form |-> "prose", field |-> "absent",
            items |-> <<Item(StrV(A), StrV(OkText), NumV(9))>>] }
    \cup { [form |-> "object", field |-> f, items |-> <<>>] : f \in {"absent", "other"} }
    \cup { [form |-> "object", field |-> "list", items |-> s] : s \in ItemLists }

-----------------------------------------------------------------------------
(* The handlers *)

InitApi ==
    /\ endpoint \in {"search", "recommend"}
    /\ body \in (IF endpoint = "search" THEN SearchBodies ELSE RecommendBodies)
    /\ env \in Envs
    /\ pc = "start"
    /\ intent = <<>>
    /\ top_k = 0
    /\ k = 0
    /\ candidates = <<>>
    /\ source = "none"
    /\ allowed_ids = <<>>
    /\ modelOut = NoModelOut
    /\ recs = <<>>
    /\ storeOut = NoStoreAnswer
    /\ storeCalls = 0
    /\ modelCalls = 0
    /\ response = NoResponse

\* recommend, lines 290-347 and the hand-over at 351/359/372-374
RecommendParse ==
    /\ pc = "start" /\ endpoint = "recommend"
    /\ LET p == ParseRecommend(body)
       IN  /\ intent' = p.intent
           /\ top_k' = p.top_k
           /\ IF p.outcome = "ok"
              THEN /\ response' = response
                   /\ IF p.cands = <<>>
                      THEN /\ pc' = "fts"
                           /\ UNCHANGED <<candidates, source, allowed_ids>>
                      ELSE /\ pc' = "model"
                           /\ candidates' = CapCandidates(p.cands)
                           /\ allowed_ids' = AllowedIds(CapCandidates(p.cands))
                           /\ source' = "caller"
              ELSE /\ pc' = "done"
                   /\ response' = CASE p.outcome = "bad_json" -> Err("invalid_json", 400)
                                    [] p.outcome = "missing" -> Err("missing_intent", 400)
                                    [] OTHER -> handle_unexpected
                   /\ UNCHANGED <<candidates, source, allowed_ids>>
    /\ UNCHANGED <<endpoint, body, env, k, modelOut, recs, storeOut, storeCalls, modelCalls>>
    /\ UNCHANGED ingVars

\* the fallback without the return on an empty candidate list
RecommendFtsNoBail ==
    /\ pc = "fts"
    /\ \E out \in (IF ConfigMissing THEN {NoStoreAnswer} ELSE FtsOutcomes) :
         LET cands == retrieve_candidates_fts(out)
         IN  /\ storeOut' = out
             /\ storeCalls' = IF ConfigMissing THEN storeCalls ELSE storeCalls + 1
             /\ pc' = "model"
             /\ candidates' = CapCandidates(cands)
             /\ allowed_ids' = AllowedIds(CapCandidates(cands))
             /\ source' = "fts"
             /\ response' = response
    /\ UNCHANGED <<endpoint, body, env, intent, top_k, k, modelOut, recs, modelCalls>>
    /\ UNCHANGED ingVars

\* recommend, lines 351-374 with retrieve_candidates_fts, lines 106-147
RecommendFts ==
    /\ pc = "fts"
    /\ \E out \in (IF ConfigMissing THEN {NoStoreAnswer} ELSE FtsOutcomes) :
         LET cands == retrieve_candidates_fts(out)
         IN  /\ storeOut' = out
             /\ storeCalls' = IF ConfigMissing THEN storeCalls ELSE storeCalls + 1
             /\ IF cands = <<>>
                THEN /\ pc' = "done"
                     /\ response' = OkRecommendations(<<>>)
                     /\ UNCHANGED <<candidates, source, allowed_ids>>
                ELSE /\ pc' = "model"
                     /\ candidates' = CapCandidates(cands)
                     /\ allowed_ids' = AllowedIds(CapCandidates(cands))
                     /\ source' = "fts"
                     /\ response' = response
    /\ UNCHANGED <<endpoint, body, env, intent, top_k, k, modelOut, recs, modelCalls>>
    /\ UNCHANGED ingVars

\* the completion call tried a second time after an exception
RecommendModelRetry ==
    /\ pc = "model"
    /\ \E out \in ModelOutcomes :
         /\ modelOut' = out
         /\ recs' = RecsOf(out)
         /\ pc' = IF out.form = "raise" /\ modelCalls = 0 THEN "model" ELSE "validate"
    /\ modelCalls' = modelCalls + 1
    /\ UNCHANGED <<endpoint, body, env, intent, top_k, k, candidates, source, allowed_ids,
                   storeOut, storeCalls, response>>
    /\ UNCHANGED ingVars

\* recommend, lines 389-409
RecommendModel ==
    /\ pc = "model"
    /\ \E out \in ModelOutcomes :
         /\ modelOut' = out
         /\ recs' = RecsOf(out)
    /\ modelCalls' = modelCalls + 1
    /\ pc' = "validate"
    /\ UNCHANGED <<endpoint, body, env, intent, top_k, k, candidates, source, allowed_ids,
                   storeOut, storeCalls, response>>
    /\ UNCHANGED ingVars

\* recommend, lines 411-433
RecommendValidate ==
    /\ pc = "validate"
    /\ LET v == Validate(recs, allowed_ids)
       IN  response' = IF v.ok THEN OkRecommendations(EnforceTopK(v.cleaned, top_k))
                       ELSE handle_unexpected
    /\ pc' = "done"
    /\ UNCHANGED <<endpoint, body, env, intent, top_k, k, candidates, source, allowed_ids,
                   modelOut, recs, storeOut, storeCalls, modelCalls>>
    /\ UNCHANGED ingVars

\* search, lines 173-206
SearchParse ==
    /\ pc = "start" /\ endpoint = "search"
    /\ LET p == ParseSearch(body)
       IN  /\ k' = p.k
           /\ IF p.outcome = "ok"
              THEN pc' = "store" /\ response' = response
              ELSE /\ pc' = "done"
                   /\ response' = CASE p.outcome = "bad_json" -> Err("invalid_json", 400)
                                    [] p.outcome = "missing" -> Err("missing_query", 400)
                                    [] p.outcome = "invalid_k" -> Err("invalid_k", 422)
                                    [] p.outcome = "config" -> Err("config", 500)
                                    [] OTHER -> handle_unexpected
    /\ UNCHANGED <<endpoint, body, env, intent, top_k, candidates, source, allowed_ids,
                   modelOut, recs, storeOut, storeCalls, modelCalls>>
    /\ UNCHANGED ingVars

\* search, lines 208-255
SearchStore ==
    /\ pc = "store"
    /\ \E out \in SearchOutcomes :
         /\ storeOut' = out
         /\ response' = SearchResponse(out)
    /\ storeCalls' = storeCalls + 1
    /\ pc' = "done"
    /\ UNCHANGED <<endpoint, body, env, intent, top_k, k, candidates, source, allowed_ids,
                   modelOut, recs, modelCalls>>
    /\ UNCHANGED ingVars

-----------------------------------------------------------------------------
(* Ingestion: constants and the embedding text builder *)

VECTOR_DIM == 1536
EMBEDDING_DIM == 1536
BATCH_SIZE == 50
TEXT_MAX_CHARS == 500

NEWLINE == "\n"
DASH == "-"
\* the em dash of the text template, one character
EMDASH == "--"

\* desc.replace("\n", " ")
ReplaceNewlines(s) == [i \in 1..Len(s) |-> IF s[i] = NEWLINE THEN SPACE ELSE s[i]]

\* " ".join(desc.split()): runs of whitespace become one space, none at the ends
RECURSIVE CollapseFrom(_, _, _)
CollapseFrom(s, i, acc) ==
    IF i > Len(s) THEN acc
    ELSE IF s[i] \in {SPACE, NEWLINE}
         THEN CollapseFrom(s, i + 1, acc)
         ELSE CollapseFrom(s, i + 1,
                 IF acc # <<>> /\ i > 1 /\ s[i - 1] \in {SPACE, NEWLINE}
                 THEN acc \o <<SPACE, s[i]>> ELSE Append(acc, s[i]))

CollapseSpaces(s) == CollapseFrom(s, 1, <<>>)

\* str.strip(chars)
RECURSIVE LStripChars(_, _)
LStripChars(s, cs) == IF s = <<>> THEN s
                      ELSE IF Head(s) \in cs THEN LStripChars(Tail(s), cs) ELSE s

RECURSIVE RStripChars(_, _)
RStripChars(s, cs) == IF s = <<>> THEN s
                      ELSE IF s[Len(s)] \in cs
                           THEN RStripChars(SubSeq(s, 1, Len(s) - 1), cs) ELSE s

StripChars(s, cs) == RStripChars(LStripChars(s, cs), cs)

\* s.startswith(p)
StartsWith(s, p) == Len(p) <= Len(s) /\ SubSeq(s, 1, Len(p)) = p

\* s[n:]
Drop(s, n) == SubSeq(s, n + 1, Len(s))

\* the description as the builder trims it (steps 3 and 4)
TrimDescription(title, desc) ==
    LET d == Take(CollapseSpaces(ReplaceNewlines(desc)), TEXT_MAX_CHARS)
    IN  IF StartsWith(Lower(d), Lower(title))
        THEN StripChars(Drop(d, Len(title)), {SPACE, DASH, ":", ";"})
        ELSE d

build_embedding_text(row) ==
    LET title == StripOf(row.title).s
        desc == StripOf(row.description).s
    IN  IF desc = <<>> THEN title
        ELSE Strip(title \o <<SPACE, EMDASH, SPACE>> \o TrimDescription(title, desc))

-----------------------------------------------------------------------------
(* Ingestion: the store and the provider *)

\* fetch_courses, lines 51-73: the rows with a course_id and a title, trimmed
HasIdAndTitle(row) ==
    StripOf(row.course_id).s # <<>> /\ StripOf(row.title).s # <<>>

CleanRows(rs) ==
    LET kept == SelectSeq(rs, HasIdAndTitle)
    IN  [i \in 1..Len(kept) |->
            [course_id |-> StrV(StripOf(kept[i].course_id).s),
             title |-> StrV(StripOf(kept[i].title).s),
             description |-> StrV(StripOf(kept[i].description).s)]]

\* an embedding is [of, dim]: the text it embeds and its length
Embedding(text) == [of |-> text, dim |-> EMBEDDING_DIM]
\* a vector that embeds none of the texts
StrayEmbedding == [of |-> <<"?">>, dim |-> EMBEDDING_DIM]

\* what the provider may return for a batch: one vector per text in order
\* (the contract), one vector short, one vector too many, or a vector of
\* another dimension
ProviderModes == {"ok", "short", "long", "bad_dim"}

ProviderAnswer(batch, mode) ==
    LET good == [i \in 1..Len(batch) |-> Embedding(batch[i])]
    IN  CASE mode = "ok"      -> good
          [] mode = "short"   -> SubSeq(good, 1, Len(good) - 1)
          [] mode = "long"    -> Append(good, StrayEmbedding)
          [] OTHER            -> [i \in 1..Len(good) |->
                                    IF i = Len(good)
                                    THEN [of |-> batch[i], dim |-> EMBEDDING_DIM - 1]
                                    ELSE good[i]]

\* texts[i:i + BATCH_SIZE], i counted from 0
\* a batch one text longer than the batch size
BatchAtOneMore(ts, i) == SubSeq(ts, i + 1, Min(i + BATCH_SIZE + 1, Len(ts)))

BatchAt(ts, i) == SubSeq(ts, i + 1, Min(i + BATCH_SIZE, Len(ts)))

\* lines 155-169: the list is returned only if count and dimensions match
CheckEmbeddings(embs, ts) ==
    IF Len(embs) # Len(ts) THEN <<>>
    ELSE IF \E i \in 1..Len(embs) : embs[i].dim # EMBEDDING_DIM THEN <<>>
    ELSE embs

\* the payload without its last pair
UpsertItemsOffByOne(rs, vs) ==
    [i \in 1..(Min(Len(rs), Len(vs)) - 1) |->
        [course_id |-> rs[i].course_id, embedding |-> vs[i]]]

\* line 259: zip(rows, vectors)
UpsertItems(rs, vs) ==
    [i \in 1..Min(Len(rs), Len(vs)) |->
        [course_id |-> rs[i].course_id, embedding |-> vs[i]]]

KeysOf(table) == {table[i].course_id : i \in 1..Len(table)}

\* the store's upsert on the key course_id: a row with a known key replaces
\* the stored one, a new key is appended
Upsert(table, items) ==
    LET last(key) == items[CHOOSE i \in 1..Len(items) :
                              /\ items[i].course_id = key
                              /\ \A j \in (i + 1)..Len(items) : items[j].course_id # key]
        fresh(i) == /\ items[i].course_id \notin KeysOf(table)
                    /\ \A j \in 1..(i - 1) : items[j].course_id # items[i].course_id
        added == SelectSeq([i \in 1..Len(items) |-> i], fresh)
    IN  [i \in 1..Len(table) |->
            IF table[i].course_id \in KeysOf(items) THEN last(table[i].course_id)
            ELSE table[i]]
        \o [n \in 1..Len(added) |-> last(items[added[n]].course_id)]

\* count_table: the number of rows, or -1 when the call fails
count_table(table, ok) == IF ok THEN Len(table) ELSE 0 - 1

\* the check without the number of rows embedded
CountsMatchTablesOnly(ce, co, rs) == ce = co

\* line 270
CountsMatch(ce, co, rs) == ce = co /\ ce = Len(rs)

-----------------------------------------------------------------------------
(* Ingestion: bounds and inputs *)

\* rows of the small source tables
MaxCourses == 2
\* runs of the job in one behaviour
MaxRuns == 2
\* runs of ingest_courses between them
MaxLoads == 1

DigitSeq == <<"0", "1", "2", "3", "4", "5", "6", "7", "8", "9">>

RECURSIVE Dec(_)
Dec(n) == IF n < 10 THEN <<DigitSeq[n + 1]>>
          ELSE Dec(n \div 10) \o <<DigitSeq[(n % 10) + 1]>>

IdOf(i) == <<"c">> \o Dec(i)
TitleOf(i) == <<"P">> \o Dec(i)
DescOf(i) == CASE i % 3 = 0 -> Null
               [] i % 3 = 1 -> StrV(<<"p">> \o Dec(i) \o <<":", SPACE, "d">>)
               [] OTHER     -> StrV(<<"d", SPACE, NEWLINE, "e", SPACE>>)

CourseRow(i) ==
    [course_id |-> StrV(IdOf(i)), title |-> StrV(TitleOf(i)), description |-> DescOf(i)]

\* rows no run of ingest_courses writes: course_id or title blank or missing
MalformedRows ==
    { [course_id |-> StrV(<<>>), title |-> StrV(<<"P">>), description |-> Null],
      [course_id |-> StrV(<<SPACE>>), title |-> StrV(<<"P">>), description |-> Null],
      [course_id |-> StrV(<<"m">>), title |-> Null, description |-> Null],
      [course_id |-> StrV(<<"m">>), title |-> StrV(<<SPACE>>), description |-> StrV(<<"d">>)] }

ValidTable(n) == [i \in 1..n |-> CourseRow(i)]

\* more rows than one batch holds
OverBatch == BATCH_SIZE + 1

InitialTables ==
    { ValidTable(n) : n \in 0..MaxCourses }
    \cup { <<m>> \o ValidTable(n) : n \in 0..MaxCourses, m \in MalformedRows }
    \cup { ValidTable(n) \o <<m>> : n \in 1..MaxCourses, m \in MalformedRows }
    \cup { ValidTable(OverBatch) }

TextsOf(rs) == [i \in 1..Len(rs) |-> build_embedding_text(rs[i])]

TextLists ==
    { TextsOf(ValidTable(n)) : n \in 0..MaxCourses } \cup { TextsOf(ValidTable(OverBatch)) }

CsvRow(cid, title, desc) == [course_id |-> cid, title |-> title, description |-> desc]

\* the CSV files ingest_courses may be run on
CsvFiles ==
    { <<CsvRow(StrV(<<SPACE>> \o IdOf(1) \o <<SPACE>>), StrV(<<"P", "M">>), StrV(<<"n">>))>>,
      <<CsvRow(StrV(IdOf(9)), StrV(TitleOf(9)), Null)>>,
      <<CsvRow(StrV(<<>>), StrV(<<"P">>), Null), CsvRow(StrV(IdOf(8)), StrV(<<SPACE>>), Null)>>,
      <<CsvRow(StrV(IdOf(1)), StrV(<<"P", "M">>), Null), CsvRow(Null, Null, Null),
        CsvRow(StrV(IdOf(9)), StrV(TitleOf(9)), StrV(<<"d">>))>>,
      \* descriptions that repeat the title twice, or hold nothing else
      <<CsvRow(StrV(IdOf(8)), StrV(TitleOf(8)),
               StrV(TitleOf(8) \o <<SPACE, DASH, SPACE>> \o TitleOf(8) \o <<":", SPACE, "d">>)),
        CsvRow(StrV(IdOf(9)), StrV(TitleOf(9)), StrV(TitleOf(9)))>> }

\* ingest_courses.normalize_rows: the rows normalize_row accepts, trimmed
normalize_rows(raw) == CleanRows(raw)

-----------------------------------------------------------------------------
(* Ingestion: the job *)

ApiIdle ==
    /\ endpoint = "none"
    /\ body = EmptyBody
    /\ env = [url |-> TRUE, key |-> TRUE]
    /\ pc = "idle"
    /\ intent = <<>>
    /\ top_k = 0
    /\ k = 0
    /\ candidates = <<>>
    /\ source = "none"
    /\ allowed_ids = <<>>
    /\ modelOut = NoModelOut
    /\ recs = <<>>
    /\ storeOut = NoStoreAnswer
    /\ storeCalls = 0
    /\ modelCalls = 0
    /\ response = NoResponse

\* the variables of one run, before it starts
RunReset ==
    /\ rows' = <<>>
    /\ texts' = <<>>
    /\ batchStart' = 0
    /\ received' = <<>>
    /\ vectors' = <<>>
    /\ raised' = FALSE
    /\ written' = 0
    /\ ce_count' = 0
    /\ co_count' = 0
    /\ exit' = 0 - 1
    /\ writes' = 0
    /\ providerCalls' = 0
    /\ providerOk' = TRUE
    /\ storeOk' = TRUE

IngestIdle ==
    /\ prog = "none"
    /\ ipc = "idle"
    /\ courses = <<>>
    /\ embeddings = <<>>
    /\ rows = <<>>
    /\ texts = <<>>
    /\ batchStart = 0
    /\ received = <<>>
    /\ vectors = <<>>
    /\ raised = FALSE
    /\ written = 0
    /\ ce_count = 0
    /\ co_count = 0
    /\ exit = 0 - 1
    /\ writes = 0
    /\ providerCalls = 0
    /\ providerOk = TRUE
    /\ storeOk = TRUE
    /\ prior = 0
    /\ runs = 0
    /\ loads = 0

InitIngest ==
    /\ ApiIdle
    /\ prog \in {"job", "embed"}
    /\ ipc = IF prog = "job" THEN "start" ELSE "embed"
    /\ courses \in (IF prog = "job" THEN InitialTables ELSE {<<>>})
    /\ embeddings = <<>>
    /\ rows = <<>>
    /\ texts \in (IF prog = "job" THEN {<<>>} ELSE TextLists)
    /\ batchStart = 0
    /\ received = <<>>
    /\ vectors = <<>>
    /\ raised = FALSE
    /\ written = 0
    /\ ce_count = 0
    /\ co_count = 0
    /\ exit = 0 - 1
    /\ writes = 0
    /\ providerCalls = 0
    /\ providerOk = TRUE
    /\ storeOk = TRUE
    /\ prior = 0
    /\ runs = IF prog = "job" THEN 1 ELSE 0
    /\ loads = 0

\* main, lines 227-245, with fetch_courses
JobFetch ==
    /\ prog = "job" /\ ipc = "start"
    /\ \E ok \in BOOLEAN :
         /\ storeOk' = ok
         /\ rows' = IF ok THEN CleanRows(courses) ELSE <<>>
         /\ texts' = IF ok THEN TextsOf(CleanRows(courses)) ELSE <<>>
         /\ IF ok /\ CleanRows(courses) # <<>>
            THEN ipc' = "embed" /\ exit' = exit
            ELSE ipc' = "done" /\ exit' = 1
    /\ UNCHANGED <<prog, courses, embeddings, batchStart, received, vectors, raised,
                   written, ce_count, co_count, writes, providerCalls, providerOk,
                   prior, runs, loads>>
    /\ UNCHANGED apiVars

\* create_embeddings, lines 113-137: texts[0] is read before the emptiness check
EmbedStart ==
    /\ ipc = "embed"
    /\ IF texts = <<>>
       THEN /\ raised' = TRUE
            /\ ipc' = "done"
            /\ exit' = IF prog = "job" THEN 1 ELSE exit
       ELSE /\ raised' = FALSE
            /\ ipc' = "batch"
            /\ exit' = exit
    /\ batchStart' = 0
    /\ received' = <<>>
    /\ UNCHANGED <<prog, courses, embeddings, rows, texts, vectors, written, ce_count,
                   co_count, writes, providerCalls, providerOk, storeOk, prior, runs, loads>>
    /\ UNCHANGED apiVars

\* create_embeddings, lines 138-145: one provider call for one batch
EmbedBatch ==
    /\ ipc = "batch" /\ batchStart < Len(texts)
    /\ providerCalls' = providerCalls + 1
    /\ \E mode \in ProviderModes \cup {"raise"} :
         /\ providerOk' = (providerOk /\ mode = "ok")
         /\ IF mode = "raise"
            THEN /\ raised' = TRUE
                 /\ ipc' = "done"
                 /\ exit' = IF prog = "job" THEN 1 ELSE exit
                 /\ UNCHANGED <<received, batchStart>>
            ELSE /\ received' = received \o ProviderAnswer(BatchAt(texts, batchStart), mode)
                 /\ batchStart' = batchStart + BATCH_SIZE
                 /\ UNCHANGED <<raised, ipc, exit>>
    /\ UNCHANGED <<prog, courses, embeddings, rows, texts, vectors, written, ce_count,
                   co_count, writes, storeOk, prior, runs, loads>>
    /\ UNCHANGED apiVars

\* create_embeddings, lines 148-169
EmbedReturn ==
    /\ ipc = "batch" /\ batchStart >= Len(texts)
    /\ vectors' = CheckEmbeddings(received, texts)
    /\ ipc' = IF prog = "job" THEN "embedded" ELSE "done"
    /\ UNCHANGED <<prog, courses, embeddings, rows, texts, batchStart, received, raised,
                   written, ce_count, co_count, exit, writes, providerCalls, providerOk,
                   storeOk, prior, runs, loads>>
    /\ UNCHANGED apiVars

\* main going on to the upsert whatever create_embeddings returned
JobCheckVectorsNone ==
    /\ ipc = "embedded"
    /\ ipc' = "upsert"
    /\ UNCHANGED <<prog, courses, embeddings, rows, texts, batchStart, received, vectors,
                   raised, written, ce_count, co_count, exit, writes, providerCalls,
                   providerOk, storeOk, prior, runs, loads>>
    /\ UNCHANGED apiVars

\* main, lines 248-256
JobCheckVectors ==
    /\ ipc = "embedded"
    /\ IF vectors = <<>> \/ Len(vectors) # Len(texts)
       THEN ipc' = "done" /\ exit' = 1
       ELSE ipc' = "upsert" /\ exit' = exit
    /\ UNCHANGED <<prog, courses, embeddings, rows, texts, batchStart, received, vectors,
                   raised, written, ce_count, co_count, writes, providerCalls, providerOk,
                   storeOk, prior, runs, loads>>
    /\ UNCHANGED apiVars

\* main, lines 258-263, with upsert_course_embeddings
JobUpsert ==
    /\ ipc = "upsert"
    /\ \E ok \in BOOLEAN :
         /\ storeOk' = (storeOk /\ ok)
         /\ IF ok
            THEN /\ embeddings' = Upsert(embeddings, UpsertItems(rows, vectors))
                 /\ written' = Len(UpsertItems(rows, vectors))
                 /\ writes' = writes + 1
                 /\ ipc' = "verify"
                 /\ exit' = exit
            ELSE /\ ipc' = "done"
                 /\ exit' = 1
                 /\ UNCHANGED <<embeddings, written, writes>>
    /\ UNCHANGED <<prog, courses, rows, texts, batchStart, received, vectors, raised,
                   ce_count, co_count, providerCalls, providerOk, prior, runs, loads>>
    /\ UNCHANGED apiVars

\* main, lines 265-276, with count_table
JobVerify ==
    /\ ipc = "verify"
    /\ \E ceOk \in BOOLEAN, coOk \in BOOLEAN :
         /\ ce_count' = count_table(embeddings, ceOk)
         /\ co_count' = count_table(courses, coOk)
         /\ storeOk' = (storeOk /\ ceOk /\ coOk)
         /\ exit' = IF CountsMatch(count_table(embeddings, ceOk),
                                   count_table(courses, coOk), rows)
                    THEN 0 ELSE 2
    /\ ipc' = "done"
    /\ UNCHANGED <<prog, courses, embeddings, rows, texts, batchStart, received, vectors,
                   raised, written, writes, providerCalls, providerOk, prior, runs, loads>>
    /\ UNCHANGED apiVars

\* ingest_courses.main, lines 190-219: normalize the CSV rows and upsert them
IngestCourses ==
    /\ prog = "job" /\ ipc = "done" /\ loads < MaxLoads
    /\ \E csv \in CsvFiles, ok \in BOOLEAN :
         courses' = IF normalize_rows(csv) # <<>> /\ ok
                    THEN Upsert(courses, normalize_rows(csv)) ELSE courses
    /\ loads' = loads + 1
    /\ ipc' = "loaded"
    /\ RunReset
    /\ UNCHANGED <<prog, embeddings, prior, runs>>
    /\ UNCHANGED apiVars

\* the job is started again
JobRestart ==
    /\ prog = "job" /\ ipc \in {"done", "loaded"} /\ runs < MaxRuns
    /\ runs' = runs + 1
    /\ ipc' = "start"
    /\ RunReset
    /\ prior' = Len(embeddings)
    /\ UNCHANGED <<prog, courses, embeddings, loads>>
    /\ UNCHANGED apiVars

-----------------------------------------------------------------------------
(* Specifications *)

Init == InitApi /\ IngestIdle

Next ==
    \/ RecommendParse
    \/ RecommendFts
    \/ RecommendModel
    \/ RecommendValidate
    \/ SearchParse
    \/ SearchStore

\* one request to the API
Spec == Init /\ [][Next]_vars

NextIngest ==
    \/ JobFetch
    \/ EmbedStart
    \/ EmbedBatch
    \/ EmbedReturn
    \/ JobCheckVectors
    \/ JobUpsert
    \/ JobVerify
    \/ IngestCourses
    \/ JobRestart

\* runs of the ingestion job, or one call of create_embeddings
SpecIngest == InitIngest /\ [][NextIngest]_vars

-----------------------------------------------------------------------------
(* Properties of one API request (specification Spec) *)

RecommendDone == endpoint = "recommend" /\ pc = "done"
SearchDone == endpoint = "search" /\ pc = "done"

Emitted == response.recommendations

\* ids the caller offered in 'results' and 'courses', trimmed
CallerIds ==
    { StrV(Strip(body.results.items[i].course_id.s)) :
        i \in { j \in 1..Len(body.results.items) :
                  body.results.items[j].course_id.t = "str" } }
    \cup
    { StrV(Strip(body.courses.items[i].s)) :
        i \in { j \in 1..Len(body.courses.items) : body.courses.items[j].t = "str" } }

\* ids of the rows the full-text search returned
StoreIds == { storeOut.items[i].course_id : i \in 1..Len(storeOut.items) }

\* C1: every course_id in a /recommend response is the id of one of the at
\* most 10 effective candidates, which are the caller's trimmed ids or else
\* the ids of the rows the full-text search returned; an id the model
\* invented never appears.
C1_OnlyCandidateIds ==
    /\ Len(candidates) <= 10
    /\ \A i \in 1..Len(Emitted) :
         LET cid == StrV(Emitted[i].course_id)
         IN  /\ cid \in CandIds(candidates)
             /\ source = "caller" => cid \in CallerIds
             /\ source = "fts" => cid \in StoreIds
             /\ source \in {"caller", "fts"}

\* the model returned an id outside the candidates next to a valid one
C1_Witness ==
    /\ RecommendDone
    /\ Emitted # <<>>
    /\ \E j \in 1..Len(recs) :
         /\ recs[j].t = "dict"
         /\ recs[j].course_id = StrV(Z)
         /\ StrV(Z) \notin CandIds(candidates)
         /\ Strip(recs[j].rationale.s) # <<>>

\* C2: the effective top_k is in 1..25, a requested integer is clamped into
\* that range (999 gives 25, 0 gives 1), and a response never carries more
\* recommendations than the effective top_k.
C2_TopKClamped ==
    (endpoint = "recommend" /\ (pc \in {"fts", "model", "validate"} \/ response.status = 200))
    =>  /\ top_k \in 1..25
        /\ (body.top_k.t = "num" /\ body.top_k.n % 10 = 0)
             => LET want == body.top_k.n \div 10
                IN  top_k = IF want < 1 THEN 1 ELSE IF want > 25 THEN 25 ELSE want
        /\ Len(Emitted) <= top_k

\* top_k 999 was requested and the model returned 26 valid items: 25 are emitted
C2_Witness ==
    /\ RecommendDone
    /\ body.top_k = NumV(9990)
    /\ Len(recs) = OverTopK
    /\ Len(Emitted) = 25

\* C3: once the candidate set is non-empty, /recommend answers 200,
\* whatever the model returned.
C3_AlwaysOkWithCandidates ==
    (RecommendDone /\ candidates # <<>>) => response.status = 200

NeedsStore ==
    \/ endpoint = "search" /\ ParseSearch(body).outcome \in {"config", "ok"}
    \/ endpoint = "recommend" /\ ParseRecommend(body).outcome = "ok"
         /\ ParseRecommend(body).cands = <<>>

\* C4: a request that needs the store while its URL or credential is missing
\* ends in the configuration error, for /search and for the retrieval
\* fallback of /recommend alike, never in an empty list.
C4_ConfigErrorDistinct ==
    (pc = "done" /\ ConfigMissing /\ NeedsStore)
    => (response.status = 500 /\ response.error = "config")

QueryGiven ==
    /\ body.form = "object"
    /\ StripOf(PyOr(body.q, body.query)).ok
    /\ StripOf(PyOr(body.q, body.query)).s # <<>>

\* an integer, as a JSON number or as the text of one
IsInteger(v) ==
    \/ v.t = "num" /\ v.n % 10 = 0
    \/ v.t = "str" /\ ParseInt(Strip(v.s)).ok

IntegerOf(v) == IF v.t = "num" THEN v.n \div 10 ELSE ParseInt(Strip(v.s)).n

\* C5: /search with a non-empty query and the store configured: an integer
\* k in 1..25 gives at most k results, whatever rows the store returns; a k
\* outside that range, or no integer, gives the 422 error.
C5_SearchLimit ==
    (SearchDone /\ QueryGiven /\ ~ConfigMissing /\ body.k.t # "absent")
    => IF IsInteger(body.k) /\ IntegerOf(body.k) \in 1..25
       THEN Len(response.results) <= IntegerOf(body.k)
       ELSE response.status = 422

Uncoercible(v) ==
    v.t \in {"absent", "null", "list"} \/ (v.t = "str" /\ ~PyFloat(v).ok)

Blank(v) == v.t \in {"absent", "null"} \/ (v.t = "str" /\ Strip(v.s) = <<>>)

\* C10: every emitted recommendation has a rationale of 1 to 400 characters
\* and a confidence in [0, 1]; a missing or uncoercible raw confidence is
\* emitted as 0.6; a raw item whose rationale is empty or missing is not
\* emitted.
C10_ItemShape ==
    \A i \in 1..Len(Emitted) :
       LET it == Emitted[i]
           raw == recs[it.src]
       IN  /\ Len(it.rationale) \in 1..400
           /\ ~it.confidence.nan
           /\ it.confidence.n \in 0..10
           /\ Uncoercible(raw.confidence) => it.confidence = Flt(6)
           /\ ~Blank(raw.rationale)

\* an item with an uncoercible confidence is emitted with 0.6 while an item
\* of the same answer with an empty rationale is not
C10_Witness ==
    /\ RecommendDone
    /\ \E i \in 1..Len(Emitted) :
         /\ recs[Emitted[i].src].confidence = StrV(<<"h", "i">>)
         /\ Emitted[i].confidence = Flt(6)
    /\ \E j \in 1..Len(recs) :
         /\ recs[j].t = "dict"
         /\ recs[j].rationale = StrV(<<>>)
         /\ recs[j].course_id \in CandIds(candidates)

-----------------------------------------------------------------------------
(* Properties of the ingestion job (specification SpecIngest) *)

JobDone == prog = "job" /\ ipc = "done"

\* create_embeddings has returned or raised
EmbedOver ==
    \/ prog = "embed" /\ ipc = "done"
    \/ prog = "job" /\ ipc = "embedded"
    \/ prog = "job" /\ ipc = "done" /\ raised

\* C6: create_embeddings either signals failure (an exception or the empty
\* list) or returns one vector of the configured dimension per text, the
\* i-th vector being the embedding of the i-th text.
C6_AllOrNothing ==
    EmbedOver
    => \/ raised
       \/ vectors = <<>>
       \/ /\ Len(vectors) = Len(texts)
          /\ \A i \in 1..Len(texts) : vectors[i] = Embedding(texts[i])

\* C7: the job exits 0 exactly when, after its upsert, the two table counts
\* were read and both equal the number of rows embedded; after an upsert any
\* other outcome exits 2; a run writes to course_embeddings at most once.
C7_SuccessIffCountsAgree ==
    /\ writes <= 1
    /\ JobDone =>
         /\ exit = 0 <=> /\ writes = 1
                         /\ ce_count = Len(embeddings)
                         /\ co_count = Len(courses)
                         /\ Len(embeddings) = Len(rows)
                         /\ Len(courses) = Len(rows)
         /\ (writes = 1 /\ exit # 0) => exit = 2
         /\ writes = 0 => exit = 1

\* both counts failed after the upsert: the run exits 2
C7_Witness ==
    /\ JobDone
    /\ writes = 1
    /\ ce_count = 0 - 1
    /\ co_count = 0 - 1
    /\ exit = 2

AllValid(table) == \A i \in 1..Len(table) : HasIdAndTitle(table[i])

OneMalformed(table) ==
    Cardinality({ i \in 1..Len(table) : ~HasIdAndTitle(table[i]) }) = 1

\* C9: with exactly one malformed row among the N >= 2 rows of courses, and
\* provider and store answering correctly, the job embeds the other N-1
\* rows and its count check passes with N-1 on both sides.
C9_MalformedRowDropped ==
    (JobDone /\ OneMalformed(courses) /\ Len(courses) >= 2 /\ providerOk /\ storeOk)
    =>  /\ Len(rows) = Len(courses) - 1
        /\ ce_count = Len(rows)
        /\ co_count = Len(rows)
        /\ exit = 0

-----------------------------------------------------------------------------
(* Further properties of one API request (specification Spec) *)

\* C11: the candidate set of a /recommend request never holds the same
\* course_id twice, whether it came from 'results', from 'courses' or from
\* the full-text retrieval fallback.
C11_NoDuplicateCandidates ==
    \A i \in 1..Len(candidates) : \A j \in 1..Len(candidates) :
        i # j => candidates[i].course_id # candidates[j].course_id

\* what /recommend returns for the items of a model answer once recovered
RecoveredResponse ==
    OkRecommendations(EnforceTopK(Validate(modelOut.items, allowed_ids).cleaned, top_k))

\* C12: a model content inside a code fence, or an array inside prose,
\* gives the recommendations of the same content unwrapped; a content with
\* no JSON at all gives 200 with an empty list.
C12_DefensiveRecovery ==
    (RecommendDone /\ modelCalls = 1)
    =>  /\ modelOut.form \in {"fenced", "prose"} => response = RecoveredResponse
        /\ modelOut.form = "invalid" => response = OkRecommendations(<<>>)

-----------------------------------------------------------------------------
(* Further properties of the ingestion job (specification SpecIngest) *)

\* the description part of the text the builder makes for a fetched row
BuiltDescription(row) ==
    IF row.description.s = <<>> THEN <<>>
    ELSE TrimDescription(row.title.s, row.description.s)

\* the row with its description replaced by the one the builder made
Rebuilt(row) == [row EXCEPT !.description = StrV(BuiltDescription(row))]

\* C13: for every fetched course, building the text again from the trimmed
\* description the builder produced, with the same title, gives the same
\* trimmed description and the same text.
C13_BuilderIdempotent ==
    (prog = "job" /\ Len(texts) = Len(rows))
    => \A i \in 1..Len(rows) :
         /\ BuiltDescription(Rebuilt(rows[i])) = BuiltDescription(rows[i])
         /\ build_embedding_text(Rebuilt(rows[i])) = texts[i]

-----------------------------------------------------------------------------
(* Further properties of one API request (specification Spec), continued *)

StoreFailed == storeCalls >= 1 /\ storeOut \in StoreFailures

\* C14: a request during which the call to the store raised or returned a
\* non-success status is answered with status 500, never with 200.
C14_StoreFailureIs500 ==
    (pc = "done" /\ StoreFailed) => response.status = 500

Usable(v) == v.t = "str" /\ Strip(v.s) # <<>>

NoUsableQuery == ~Usable(body.q) /\ ~Usable(body.query)

MissingRequired ==
    \/ endpoint = "search" /\ NoUsableQuery
    \/ endpoint = "recommend" /\ NoUsableQuery /\ ~Usable(body.profession)

\* C15: a request without a usable 'q'/'query' (and, for /recommend, without
\* a usable 'profession') is answered 400 with no store call and no model
\* call, for every body, wrongly typed fields included.
C15_MissingFieldIs400 ==
    (pc = "done" /\ MissingRequired)
    => (response.status = 400 /\ storeCalls = 0 /\ modelCalls = 0)

\* C16: a /recommend request with a valid intent whose candidate set ends up
\* empty is answered 200 with an empty recommendations list and took_ms,
\* and the completion model is called only for a non-empty candidate set.
C16_EmptyCandidatesDegrade ==
    /\ (RecommendDone /\ ParseRecommend(body).outcome = "ok" /\ candidates = <<>>)
         => (response = OkRecommendations(<<>>) /\ response.took_ms /\ modelCalls = 0)
    /\ (endpoint = "recommend" /\ (pc = "model" \/ modelCalls > 0)) => candidates # <<>>

\* the caller's candidates were all unusable and the store found no id
C16_Witness ==
    /\ RecommendDone
    /\ ParseRecommend(body).outcome = "ok"
    /\ body.courses.t = "list" /\ body.courses.items # <<>>
    /\ storeCalls = 1 /\ storeOut.kind = "ok"
    /\ candidates = <<>>
    /\ response.status = 200

-----------------------------------------------------------------------------
(* Further properties of the ingestion job (specification SpecIngest), continued *)

\* ceil(Len(texts) / BATCH_SIZE)
BatchesNeeded == (Len(texts) + BATCH_SIZE - 1) \div BATCH_SIZE

\* create_embeddings has returned its list
EmbedReturned ==
    /\ ~raised
    /\ \/ prog = "embed" /\ ipc = "done"
       \/ prog = "job" /\ ipc \in {"embedded", "upsert", "verify"}

EmbeddingsOf(ts, n) == [i \in 1..n |-> Embedding(ts[i])]

\* C17: for n texts the batch client makes ceil(n / BATCH_SIZE) provider
\* calls, the c-th call carrying the texts after the first (c-1)*BATCH_SIZE,
\* at most BATCH_SIZE of them; the answers are concatenated in input order,
\* so with a provider that answers each batch by its embeddings the i-th
\* vector embeds the i-th text and is stored under the i-th fetched row's
\* course_id.
C17_BatchedInOrder ==
    /\ providerCalls <= BatchesNeeded
    /\ ipc = "batch" => batchStart = providerCalls * BATCH_SIZE
    /\ (ipc = "batch" /\ providerOk)
         => received = EmbeddingsOf(texts, Min(batchStart, Len(texts)))
    /\ EmbedReturned => providerCalls = BatchesNeeded
    /\ (EmbedReturned /\ providerOk) => vectors = EmbeddingsOf(texts, Len(texts))
    /\ (prog = "job" /\ writes = 1 /\ providerOk)
         => \A i \in 1..Len(rows) : \E j \in 1..Len(embeddings) :
               embeddings[j] = [course_id |-> rows[i].course_id,
                                embedding |-> Embedding(texts[i])]

\* 51 texts were embedded in two calls and stored
C17_Witness ==
    /\ prog = "job" /\ ipc = "done"
    /\ Len(texts) = OverBatch
    /\ providerCalls = 2
    /\ providerOk
    /\ writes = 1
    /\ embeddings[OverBatch].embedding = Embedding(texts[OverBatch])

-----------------------------------------------------------------------------
(* Further properties of one API request (specification Spec), the candidates *)

\* the entries the caller sent, 'results' in request order, then 'courses',
\* each with the id and title a candidate made from it would have
CallerEntries ==
    LET rs == IF body.results.t = "list" THEN body.results.items ELSE <<>>
        cs == IF body.courses.t = "list" THEN body.courses.items ELSE <<>>
    IN  [i \in 1..Len(rs) |->
            [usable |-> rs[i].t = "dict",
             course_id |-> StrV(StripOf(rs[i].course_id).s),
             title |-> StrV(StripOf(rs[i].title).s)]]
        \o
        [i \in 1..Len(cs) |->
            [usable |-> cs[i].t = "str",
             course_id |-> StrV(Strip(cs[i].s)),
             title |-> StrV(Strip(cs[i].s) \o TitleUnknown)]]

\* the hits of the store that carry an id, as candidates
StoreEntries ==
    [i \in 1..Len(storeOut.items) |->
        [usable |-> Truthy(storeOut.items[i].course_id),
         course_id |-> storeOut.items[i].course_id,
         title |-> storeOut.items[i].course_id]]

\* entries in insertion order: each usable entry with an id and a title,
\* unless dedup is asked for and an earlier such entry has the same id
InInsertionOrder(es, dedup) ==
    LET good(i) == es[i].usable /\ es[i].course_id.s # <<>> /\ es[i].title.s # <<>>
        keep(i) == /\ es[i].usable
                   /\ dedup => /\ good(i)
                               /\ \A j \in 1..(i - 1) :
                                     ~(good(j) /\ es[j].course_id = es[i].course_id)
        kept == SelectSeq([i \in 1..Len(es) |-> i], keep)
    IN  [i \in 1..Len(kept) |->
            [course_id |-> es[kept[i]].course_id, title |-> es[kept[i]].title]]

FirstTen(s) == SubSeq(s, 1, IF Len(s) < 10 THEN Len(s) ELSE 10)

\* C18: the candidates shown to the model are at most 10, namely the first
\* 10 of the candidate list in insertion order ('results' in request order,
\* then 'courses'; for the fallback, the store's hits in order), and the
\* whitelist is exactly the ids of the shown candidates.
C18_FirstTenCandidates ==
    (endpoint = "recommend" /\ candidates # <<>>)
    =>  /\ Len(candidates) <= 10
        /\ source = "caller" => candidates = FirstTen(InInsertionOrder(CallerEntries, TRUE))
        /\ source = "fts" => candidates = FirstTen(InInsertionOrder(StoreEntries, FALSE))
        /\ allowed_ids = [i \in 1..Len(candidates) |-> candidates[i].course_id]

\* eleven ids were sent; the model recommended the eleventh, which is dropped
C18_Witness ==
    /\ RecommendDone
    /\ Len(body.courses.items) = OverCap
    /\ Len(candidates) = 10
    /\ Len(recs) = 1
    /\ recs[1].course_id = StrV(LastLetter)
    /\ Strip(recs[1].rationale.s) # <<>>
    /\ response = OkRecommendations(<<>>)

-----------------------------------------------------------------------------
(* Further properties of one API request (specification Spec), the model's answer *)

\* C19: a model answer that is a bare JSON array of items is accepted like
\* an object with a 'recommendations' field: its valid, whitelisted items
\* are returned.
C19_BareArrayAccepted ==
    (RecommendDone /\ modelCalls = 1 /\ modelOut.form = "array")
    => response.recommendations = RecoveredResponse.recommendations

\* the validation loop stopping as soon as n valid items are accumulated
RECURSIVE StopAtTopK(_, _, _, _, _)
StopAtTopK(items, i, allowed, n, cleaned) ==
    IF i > Len(items) \/ Len(cleaned) >= n THEN [ok |-> TRUE, cleaned |-> cleaned]
    ELSE LET one == ValidateFrom(<<items[i]>>, 1, allowed, <<>>)
         IN  IF ~one.ok THEN [ok |-> FALSE, cleaned |-> cleaned]
             ELSE StopAtTopK(items, i + 1, allowed, n,
                     cleaned \o [j \in 1..Len(one.cleaned) |->
                                    [one.cleaned[j] EXCEPT !.src = i]])

EarlyStop ==
    IF ~Hashable(allowed_ids) THEN [ok |-> FALSE, cleaned |-> <<>>]
    ELSE StopAtTopK(recs, 1, {allowed_ids[i] : i \in 1..Len(allowed_ids)}, top_k, <<>>)

\* C20: what /recommend returns is what validating the model's items in
\* order and stopping as soon as top_k valid items are accumulated
\* produces: the first top_k valid items, in the model's order.
C20_FirstTopKValid ==
    (RecommendDone /\ modelCalls = 1 /\ EarlyStop.ok)
    => response = OkRecommendations(EarlyStop.cleaned)

-----------------------------------------------------------------------------
(* Further properties of the ingestion job (specification SpecIngest), the write *)

\* C21: a run of the job writes to course_embeddings only after
\* create_embeddings returned one vector per fetched row; a run that fetched
\* no rows, or whose embedding step raised or returned nothing, exits 1
\* with course_embeddings as it was when the run started.
C21_WriteOnlyAfterEmbedding ==
    prog = "job"
    =>  /\ (ipc = "upsert" \/ writes >= 1)
             => /\ ~raised
                /\ rows # <<>>
                /\ Len(vectors) = Len(rows)
                /\ Len(texts) = Len(rows)
                /\ providerCalls = BatchesNeeded
                /\ \A i \in 1..Len(vectors) : vectors[i].dim = EMBEDDING_DIM
        /\ (ipc = "done" /\ (rows = <<>> \/ raised \/ vectors = <<>>))
             => /\ exit = 1
                /\ writes = 0
                /\ Len(embeddings) = prior

\* a second run whose provider answered one vector short: nothing is
\* written and the records of the first run stay
C21_Witness ==
    /\ JobDone
    /\ prior > 0
    /\ rows # <<>>
    /\ providerCalls >= 1
    /\ ~raised
    /\ Len(received) # Len(texts)
    /\ writes = 0
    /\ exit = 1

-----------------------------------------------------------------------------
(* Further properties of one API request (specification Spec), the order of steps *)

\* the steps of recommend in the order they may follow each other
RecommendOrder ==
    { <<"start", "fts">>, <<"start", "model">>, <<"start", "done">>,
      <<"fts", "model">>, <<"fts", "done">>,
      <<"model", "validate">>, <<"validate", "done">> }

\* what holds at every point of a /recommend request
StepsInOrderInv ==
    endpoint = "recommend"
    =>  /\ storeCalls <= 1
        /\ modelCalls <= 1
        /\ storeCalls >= 1 => /\ InInsertionOrder(CallerEntries, TRUE) = <<>>
                              /\ source # "caller"
                              /\ pc \in {"model", "validate", "done"}
        /\ pc \in {"start", "fts"} => (modelCalls = 0 /\ storeCalls = 0 /\ candidates = <<>>)
        /\ pc = "model" => (modelCalls = 0 /\ candidates # <<>>)
        /\ modelCalls >= 1 => /\ candidates # <<>>
                              /\ pc \in {"validate", "done"}
        /\ pc = "validate" => response = NoResponse
        /\ \A i \in 1..Len(Emitted) :
              \E j \in 1..Len(candidates) :
                  candidates[j].course_id = StrV(Emitted[i].course_id)

\* what holds of every step of a /recommend request
StepsInOrderStep ==
    endpoint = "recommend"
    =>  /\ <<pc, pc'>> \in RecommendOrder
        /\ storeCalls' # storeCalls => (pc = "fts" /\ storeCalls' = storeCalls + 1)
        /\ modelCalls' # modelCalls
             => (pc = "model" /\ modelCalls' = modelCalls + 1 /\ pc' = "validate")
        /\ candidates # <<>> => (candidates' = candidates /\ allowed_ids' = allowed_ids)
        /\ pc \in {"model", "validate"} => (candidates' = candidates /\ allowed_ids' = allowed_ids)

\* C22: within one /recommend request the steps follow the order candidate
\* normalization, retrieval, model call, validation; the store is called
\* only when the caller supplied no usable candidate; the model is called
\* at most once, only after the candidate set is fixed and non-empty; the
\* validation admits only ids of that request's candidate set.
C22_StepsInOrder == [][StepsInOrderStep]_vars /\ []StepsInOrderInv

\* a request that went through retrieval, the model call and validation
C22_Witness ==
    /\ RecommendDone
    /\ storeCalls = 1
    /\ modelCalls = 1
    /\ source = "fts"
    /\ Emitted # <<>>

====
